---- MODULE Spec2Model ----
(***************************************************************************)
(* A model of BackgroundRemover (src/src/background_remover.cc): the       *)
(* constructor's acquisition and validation steps, maskBackground, the     *)
(* destructor, the per-cell mask decode run by std::for_each(par_unseq),   *)
(* the input normalisation in 32-bit floats and the debug range check.     *)
(*                                                                         *)
(* Four specifications:                                                    *)
(*   Spec        the adapter's lifecycle (constructor, frames, destructor) *)
(*   SpecDecode  getMaskFromOutput as parallel per-cell tasks              *)
(*   SpecNorm    makeInputTensor on 8-bit images, per build                *)
(*   SpecRange   checkValuesInRange on bounded matrices and ranges         *)
(***************************************************************************)
EXTENDS Integers, Sequences, FiniteSets, TLC

VARIABLES
    \* ---- lifecycle (Spec) ----
    withGL,        \* build flag WITH_GL
    ndebug,        \* build flag NDEBUG
    pc,            \* position: a constructor step, "ready", "aborted", "destroyed"
    abortedIn,     \* "none", "ctor" or "frame": where a fatal CHECK fired
    model_type_,   \* ModelType member
    width_,        \* int members
    height_,
    stride_,
    input_,        \* the discovered input tensor (type and dims)
    output_,       \* the discovered output tensor
    acquired,      \* resources created so far, in order
    released,      \* resources deleted so far, in order
    call,          \* the last maskBackground call: arguments, steps run, result
    \* ---- decode (SpecDecode) ----
    dKind,         \* model_type_ of the decode run
    dMaskw,        \* maskw, maskh of getMaskFromOutput
    dMaskh,
    dData,         \* the output tensor's data: one entry per cell
    dRet,          \* cv::Mat ret, indexed by <<x, y>>
    dPending,      \* cells whose for_each task has not started
    dDecided,      \* tasks that have read their cell and not yet written: <<pixel, write>>
    dAccess,       \* every access made so far: <<task, "read" or "write", location>>
    dRun,          \* 1 or 2: which run of the decode over the same buffer
    dFirst,        \* the mask the first run returned
    dPc,           \* "tasks", "returned"
    \* ---- normalisation (SpecNorm) ----
    nKind,         \* model_type_
    nFused,        \* whether the build's convertTo contracts a*x+b to one fma
    nImg,          \* the 8-bit input image, a sequence of 3-channel pixels
    nTensor,       \* makeInputTensor's result (float32 mantissas)
    nLo,           \* the range makeInputTensor hands to checkValuesInRange
    nHi,
    nPass,         \* whether the range check let makeInputTensor return
    nPc,           \* "start", "returned", "aborted"
    \* ---- the range check on its own (SpecRange) ----
    rMat,          \* a CV_32FC3 matrix, a sequence of 3-channel pixels
    rLo,           \* min, max
    rHi,
    rPass,         \* whether both CHECKs of checkValuesInRange pass
    rPc            \* "start", "checked"

lifeVars == <<withGL, ndebug, pc, abortedIn, model_type_, width_, height_, stride_,
              input_, output_, acquired, released, call>>
decVars == <<dKind, dMaskw, dMaskh, dData, dRet, dPending, dDecided, dAccess, dRun, dFirst, dPc>>
normVars == <<nKind, nFused, nImg, nTensor, nLo, nHi, nPass, nPc>>
rangeVars == <<rMat, rLo, rHi, rPass, rPc>>
vars == <<lifeVars, decVars, normVars, rangeVars>>

(***************************************************************************)
(* Program constants                                                       *)
(***************************************************************************)
deeplabv3_label_count == 21
person_label == 15
\* threshold = .5, in units of 1/10000
threshold == 5000

ModelTypes == {"DeeplabV3", "BodypixResnet", "BodypixMobilenet"}

Min(S) == CHOOSE m \in S : \A k \in S : m <= k
Max(S) == CHOOSE m \in S : \A k \in S : k <= m

Reverse(s) == [i \in 1..Len(s) |-> s[Len(s) + 1 - i]]

\* parseModelType
parseModelType(model_type) ==
    IF model_type = "deeplabv3" THEN "DeeplabV3"
    ELSE IF model_type = "bodypix_resnet" THEN "BodypixResnet"
    ELSE IF model_type = "bodypix_mobilenet" THEN "BodypixMobilenet"
    ELSE "Undefined"

(***************************************************************************)
(* Lifecycle: what the constructor's collaborators can answer              *)
(***************************************************************************)
\* Most pixels of a frame handed to maskBackground
MaxFramePixels == 4

ModelTypeNames == {"deeplabv3", "bodypix_resnet", "bodypix_mobilenet", "yolo"}

NullTensor == [type |-> "null", dims |-> <<>>]
TensorTypes == {"float32", "uint8"}
\* Spatial sizes an input tensor may report, and sizes and channel counts an
\* output tensor may report (0: an empty tensor)
InDims == {0, 1, 2, 16, 32}
OutDims == {0, 1, 2, 3}
OutChannels == {1, 2, 21}
\* The tensors of every size with the right type and rank, and one tensor for
\* each other way of failing a check
InputTensors ==
    {NullTensor}
    \cup {[type |-> "float32", dims |-> <<1, w, h, 3>>] : w \in InDims, h \in InDims}
    \cup {[type |-> "uint8", dims |-> <<1, 16, 16, 3>>],
          [type |-> "float32", dims |-> <<1, 16, 3>>],
          [type |-> "float32", dims |-> <<2, 16, 16, 3>>],
          [type |-> "float32", dims |-> <<1, 16, 16, 4>>]}
OutputTensors ==
    {NullTensor}
    \cup {[type |-> "float32", dims |-> <<1, w, h, c>>] :
             w \in OutDims, h \in OutDims, c \in OutChannels}
    \cup {[type |-> "uint8", dims |-> <<1, 1, 1, 1>>],
          [type |-> "float32", dims |-> <<1, 1, 1>>]}

NoCall == [status |-> "none"]

\* A failed CHECK / CHECK_NOTNULL / CHECK_EQ: glog logs FATAL and aborts the
\* process; no destructor runs and nothing is deleted.
Abort(where) ==
    /\ pc' = "aborted"
    /\ abortedIn' = where
    /\ UNCHANGED released

\* Integer division by zero is undefined behaviour: the build either traps
\* (x86 idiv) or yields quotient 0 and remainder a (AArch64 sdiv/msub).
DivOutcomes(a, b) ==
    IF b # 0 THEN {[trap |-> FALSE, quot |-> a \div b, rem |-> a % b]}
    ELSE {[trap |-> TRUE, quot |-> 0, rem |-> 0], [trap |-> FALSE, quot |-> 0, rem |-> a]}

(***************************************************************************)
(* BackgroundRemover::BackgroundRemover, one action per step               *)
(***************************************************************************)
\* line 50, 53
CtorType(model_type) ==
    /\ pc = "ctor_type"
    /\ model_type_' = parseModelType(model_type)
    /\ IF parseModelType(model_type) # "Undefined"
          THEN pc' = "ctor_model" /\ UNCHANGED <<abortedIn, released>>
          ELSE Abort("ctor")
    /\ UNCHANGED <<withGL, ndebug, width_, height_, stride_, input_, output_, acquired, call>>

\* line 55
CtorModel(created) ==
    /\ pc = "ctor_model"
    /\ IF created
          THEN pc' = "ctor_options" /\ acquired' = Append(acquired, "model")
               /\ UNCHANGED <<abortedIn, released>>
          ELSE Abort("ctor") /\ UNCHANGED acquired
    /\ UNCHANGED <<withGL, ndebug, model_type_, width_, height_, stride_, input_, output_, call>>

\* lines 57-67
CtorOptions(created) ==
    /\ pc = "ctor_options"
    /\ IF created
          THEN pc' = (IF withGL THEN "ctor_delegate" ELSE "ctor_interpreter")
               /\ acquired' = Append(acquired, "options")
               /\ UNCHANGED <<abortedIn, released>>
          ELSE Abort("ctor") /\ UNCHANGED acquired
    /\ UNCHANGED <<withGL, ndebug, model_type_, width_, height_, stride_, input_, output_, call>>

\* lines 68-74, compiled only WITH_GL
CtorDelegate(created) ==
    /\ pc = "ctor_delegate"
    /\ IF created
          THEN pc' = "ctor_interpreter" /\ acquired' = Append(acquired, "delegate")
               /\ UNCHANGED <<abortedIn, released>>
          ELSE Abort("ctor") /\ UNCHANGED acquired
    /\ UNCHANGED <<withGL, ndebug, model_type_, width_, height_, stride_, input_, output_, call>>

\* lines 76-77
CtorInterpreter(created) ==
    /\ pc = "ctor_interpreter"
    /\ IF created
          THEN pc' = "ctor_input" /\ acquired' = Append(acquired, "interpreter")
               /\ UNCHANGED <<abortedIn, released>>
          ELSE Abort("ctor") /\ UNCHANGED acquired
    /\ UNCHANGED <<withGL, ndebug, model_type_, width_, height_, stride_, input_, output_, call>>

\* The CHECKs of lines 79-86 on the input tensor
InputChecks(t) ==
    /\ t # NullTensor
    /\ t.type = "float32"
    /\ Len(t.dims) = 4
    /\ t.dims[1] = 1
    /\ t.dims[4] = 3

\* lines 79-86
CtorInput(t) ==
    /\ pc = "ctor_input"
    /\ input_' = t
    /\ IF InputChecks(t)
          THEN /\ width_' = t.dims[2]
               /\ height_' = t.dims[3]
               /\ pc' = "ctor_output"
               /\ UNCHANGED <<abortedIn, released>>
          ELSE /\ Abort("ctor")
               \* width_, height_ are assigned before the channel check of line 86
               /\ IF t # NullTensor /\ t.type = "float32" /\ Len(t.dims) = 4 /\ t.dims[1] = 1
                     THEN width_' = t.dims[2] /\ height_' = t.dims[3]
                     ELSE UNCHANGED <<width_, height_>>
    /\ UNCHANGED <<withGL, ndebug, model_type_, stride_, output_, acquired, call>>

\* The CHECKs of lines 88-91 on the output tensor
OutputChecks(t) ==
    /\ t # NullTensor
    /\ t.type = "float32"
    /\ Len(t.dims) = 4

\* StrideChecks without line 97: the vertical ratio is never compared
StrideChecks_NoRatioCompare(dw, dh) ==
    /\ ~dw.trap
    /\ dw.rem = 0
    /\ ~dh.trap
    /\ dh.rem = 0

\* lines 93, 96, 97: the stride checks on the two divisions' outcomes
StrideChecks(dw, dh) ==
    /\ ~dw.trap
    /\ dw.rem = 0
    /\ ~dh.trap
    /\ dh.rem = 0
    /\ dh.quot = dw.quot

\* lines 88-97
CtorOutput(t) ==
    /\ pc = "ctor_output"
    /\ output_' = t
    /\ IF OutputChecks(t)
          THEN \E dw \in DivOutcomes(width_, t.dims[2]), dh \in DivOutcomes(height_, t.dims[3]) :
                  /\ IF StrideChecks(dw, dh)
                        THEN pc' = "ctor_kind" /\ UNCHANGED <<abortedIn, released>>
                        ELSE Abort("ctor")
                  \* stride_ is assigned at line 94, once line 93 has passed
                  /\ IF ~dw.trap /\ dw.rem = 0
                        THEN stride_' = dw.quot
                        ELSE UNCHANGED stride_
          ELSE Abort("ctor") /\ UNCHANGED stride_
    /\ UNCHANGED <<withGL, ndebug, model_type_, width_, height_, input_, acquired, call>>

\* KindChecks with the BodypixMobilenet strides checked for BodypixResnet too
KindChecks_ResnetAsMobilenet(kind, stride, channels) ==
    IF kind = "DeeplabV3" THEN stride = 1 /\ channels = deeplabv3_label_count
    ELSE IF kind = "BodypixResnet" THEN (stride = 8 \/ stride = 16) /\ channels = 1
    ELSE IF kind = "BodypixMobilenet" THEN (stride = 8 \/ stride = 16) /\ channels = 1
    ELSE TRUE

\* lines 99-108: the per-kind CHECKs on stride_ and the output channel count
KindChecks(kind, stride, channels) ==
    IF kind = "DeeplabV3" THEN stride = 1 /\ channels = deeplabv3_label_count
    ELSE IF kind = "BodypixResnet" THEN (stride = 16 \/ stride = 32) /\ channels = 1
    ELSE IF kind = "BodypixMobilenet" THEN (stride = 8 \/ stride = 16) /\ channels = 1
    ELSE TRUE

\* lines 99-111
CtorKind ==
    /\ pc = "ctor_kind"
    /\ IF KindChecks(model_type_, stride_, output_.dims[4])
          THEN pc' = "ready" /\ UNCHANGED <<abortedIn, released>>
          ELSE Abort("ctor")
    /\ UNCHANGED <<withGL, ndebug, model_type_, width_, height_, stride_, input_, output_,
                   acquired, call>>

(***************************************************************************)
(* getMaskFromOutput                                                       *)
(***************************************************************************)
\* cv::Mat coordinates, cv::Point(x, y)
Coords(w, h) == (0..(w - 1)) \X (0..(h - 1))

\* std::max_element(l, l + deeplabv3_label_count) - l, as a 0-based index into
\* the 1-based sequence l: the scan keeps the first of equal maxima
RECURSIVE MaxElementFrom(_, _, _)
MaxElementFrom(l, i, largest) ==
    IF i >= Len(l) THEN largest
    ELSE IF l[largest + 1] < l[i + 1] THEN MaxElementFrom(l, i + 1, i)
    ELSE MaxElementFrom(l, i + 1, largest)

\* max_element keeping the last of equal maxima (<= for <)
RECURSIVE MaxElementLastFrom(_, _, _)
MaxElementLastFrom(l, i, largest) ==
    IF i >= Len(l) THEN largest
    ELSE IF l[largest + 1] <= l[i + 1] THEN MaxElementLastFrom(l, i + 1, i)
    ELSE MaxElementLastFrom(l, i + 1, largest)

max_element_LastOfTies(l) == MaxElementLastFrom(l, 1, 0)

max_element(l) == MaxElementFrom(l, 1, 0)

\* the slot a task writes: cv::Point(pixel % maskw, pixel / maskw), lines 173, 182
PixelPoint(pixel, maskw) == <<pixel % maskw, pixel \div maskw>>

\* whether the for_each body of lines 168-175 writes 1 for this cell
DeeplabIsBackground(l) == max_element(l) # person_label

\* ProbIsBackground with the threshold itself counted as below
ProbIsBackground_Inclusive(p) == p <= threshold

\* whether the for_each body of lines 179-184 writes 1 for this cell
ProbIsBackground(p) == p < threshold

\* What a task reads: its own cell of the buffer (l, or p), lines 168-171, 179-180
TaskDecision(kind, data, pixel) ==
    IF kind = "DeeplabV3" THEN DeeplabIsBackground(data[pixel + 1])
    ELSE ProbIsBackground(data[pixel + 1])

\* TaskWrite storing the decision of every cell, in row 0 whatever the cell's row
TaskWrite_RowForgotten(ret, pixel, maskw, isBackground) ==
    [ret EXCEPT ![<<pixel % maskw, 0>>] = IF isBackground THEN 1 ELSE 0]

\* What a task writes: ret.at(...) = 1 when its cell is background, lines 171-174, 180-183
TaskWrite(ret, pixel, maskw, isBackground) ==
    IF isBackground THEN [ret EXCEPT ![PixelPoint(pixel, maskw)] = 1] ELSE ret

\* One for_each task (lines 168-175 or 179-184) for cell `pixel` (0-based) of
\* the buffer `data`, applied to the mask `ret`
DecodeTask(kind, data, maskw, ret, pixel) ==
    TaskWrite(ret, pixel, maskw, TaskDecision(kind, data, pixel))

\* cv::Mat::zeros(cv::Size(maskw, maskh), CV_8U), line 159
Zeros(maskw, maskh) == [c \in Coords(maskw, maskh) |-> 0]

RECURSIVE ForEachFrom(_, _, _, _, _, _)
ForEachFrom(kind, data, maskw, ret, pixel, n) ==
    IF pixel >= n THEN ret
    ELSE ForEachFrom(kind, data, maskw, DecodeTask(kind, data, maskw, ret, pixel), pixel + 1, n)

\* getMaskFromOutput with the tasks run in index order
getMaskFromOutput(kind, maskw, maskh, data) ==
    ForEachFrom(kind, data, maskw, Zeros(maskw, maskh), 0, maskw * maskh)

\* TfLiteTensorByteSize(output_): a float32 tensor of these dims
TensorByteSize(t) == t.dims[1] * t.dims[2] * t.dims[3] * t.dims[4] * 4

\* the CHECK_EQ of line 165 or 177
SizeCheck(kind, t, maskw, maskh) ==
    IF kind = "DeeplabV3"
       THEN TensorByteSize(t) = maskw * maskh * (deeplabv3_label_count * 4)
       ELSE TensorByteSize(t) = maskw * maskh * 4

(***************************************************************************)
(* maskBackground                                                          *)
(***************************************************************************)
\* A full-resolution image whose pixels (cv::Vec3b, kept whole) are numbered
\* from `base` by coordinate, so that no two pixels of a call are equal
Image(cols, rows, base) ==
    [cols |-> cols, rows |-> rows,
     at |-> [c \in Coords(cols, rows) |-> base + c[2] * cols + c[1]]]

FrameSizes == {d \in (1..MaxFramePixels) \X (1..MaxFramePixels) : d[1] * d[2] <= MaxFramePixels}
Frames == {Image(d[1], d[2], 100) : d \in FrameSizes}
MaskImages == {Image(d[1], d[2], 200) : d \in FrameSizes}

\* Class scores of one DeeplabV3 cell: `score` at class `label`, 0 elsewhere
OneHot(label, score) == [c \in 1..deeplabv3_label_count |-> IF c = label + 1 THEN score ELSE 0]

\* What the interpreter may leave in the output tensor for the lifecycle runs:
\* per cell a person or a background score vector, or a probability on either
\* side of the threshold
LifeCellValues(kind) ==
    IF kind = "DeeplabV3" THEN {OneHot(person_label, 1), OneHot(0, 1)}
    ELSE {threshold - 1, threshold}

\* cv::resize(mask, mask, cv::Size(frame.cols, frame.rows), interpolation_method),
\* line 209.  Equal sizes copy the mask; otherwise every interpolated 8-bit value
\* lies between the least and the greatest value of the mask, and any such
\* result is allowed.
ResizeMask(mask, maskw, maskh, cols, rows) ==
    IF cols = maskw /\ rows = maskh THEN {mask}
    ELSE LET vals == {mask[c] : c \in Coords(maskw, maskh)}
         IN  [Coords(cols, rows) -> Min(vals)..Max(vals)]

\* Composite with the mask's polarity inverted
Composite_Inverted(frame, maskImage, mask) ==
    [frame EXCEPT !.at = [c \in Coords(frame.cols, frame.rows) |->
                             IF mask[c] = 0 THEN maskImage.at[c] ELSE frame.at[c]]]

\* the loop of lines 212-215
Composite(frame, maskImage, mask) ==
    [frame EXCEPT !.at = [c \in Coords(frame.cols, frame.rows) |->
                             IF mask[c] # 0 THEN maskImage.at[c] ELSE frame.at[c]]]

\* SameSize accepting any replacement image at least as tall as the frame
SameSize_TallerAccepted(frame, maskImage) ==
    frame.cols = maskImage.cols /\ frame.rows <= maskImage.rows

\* CHECK_EQ(frame.size, maskImage.size), line 192
SameSize(frame, maskImage) == frame.cols = maskImage.cols /\ frame.rows = maskImage.rows

\* The masks getMaskFromOutput can return after inference (line 203) has left
\* any data in the output tensor, by kind and mask size
DecodedMasks ==
    [kind \in ModelTypes, maskw \in OutDims \ {0}, maskh \in OutDims \ {0} |->
        {getMaskFromOutput(kind, maskw, maskh, data) :
            data \in [1..(maskw * maskh) -> LifeCellValues(kind)]}]

\* The masks lines 203-209 can hand to the compositing loop
UpscaledMasks(kind, maskw, maskh, cols, rows) ==
    UNION {ResizeMask(m, maskw, maskh, cols, rows) : m \in DecodedMasks[kind, maskw, maskh]}

CallRecord(status, frame, maskImage, steps, result) ==
    [status |-> status, frame0 |-> frame, maskImage |-> maskImage, steps |-> steps,
     frame |-> result]

\* lines 190-218.  rangeOK: whether makeInputTensor's debug range check passes
\* on this frame (it is compiled out under NDEBUG).
maskBackground(frame, maskImage, rangeOK) ==
    /\ pc = "ready"
    /\ LET maskw == width_ \div stride_
           maskh == height_ \div stride_
       IN  IF ~SameSize(frame, maskImage)
              THEN /\ Abort("frame")
                   /\ call' = CallRecord("aborted", frame, maskImage, {}, frame)
           ELSE IF ~ndebug /\ ~rangeOK
              THEN /\ Abort("frame")
                   /\ call' = CallRecord("aborted", frame, maskImage,
                                         {"resize", "normalize"}, frame)
           ELSE IF ~SizeCheck(model_type_, output_, maskw, maskh)
              THEN /\ Abort("frame")
                   /\ call' = CallRecord("aborted", frame, maskImage,
                                         {"resize", "normalize", "inference"}, frame)
           ELSE \E mask \in UpscaledMasks(model_type_, maskw, maskh, frame.cols, frame.rows) :
                   /\ call' = [CallRecord("done", frame, maskImage,
                                          {"resize", "normalize", "inference", "decode",
                                           "upscale", "composite"},
                                          Composite(frame, maskImage, mask))
                               EXCEPT !.status = "done"] @@ [mask |-> mask]
                   /\ UNCHANGED <<pc, abortedIn, released>>
    /\ UNCHANGED <<withGL, ndebug, model_type_, width_, height_, stride_, input_, output_, acquired>>

(***************************************************************************)
(* ~BackgroundRemover                                                      *)
(***************************************************************************)
\* DestructorDeletes with the options deleted before the delegate they refer to
DestructorDeletes_OptionsFirst(gl) ==
    <<"interpreter", "options">> \o (IF gl THEN <<"delegate">> ELSE <<>>) \o <<"model">>

\* lines 221-226: the Delete calls in order
DestructorDeletes(gl) ==
    <<"interpreter">> \o (IF gl THEN <<"delegate">> ELSE <<>>) \o <<"options", "model">>

\* lines 220-227
Destructor ==
    /\ pc = "ready"
    /\ released' = released \o DestructorDeletes(withGL)
    /\ pc' = "destroyed"
    /\ UNCHANGED <<withGL, ndebug, abortedIn, model_type_, width_, height_, stride_,
                   input_, output_, acquired, call>>

(***************************************************************************)
(* The lifecycle specification                                             *)
(***************************************************************************)
DecodeIdle ==
    /\ dKind = "DeeplabV3" /\ dMaskw = 0 /\ dMaskh = 0 /\ dData = <<>> /\ dRet = <<>>
    /\ dPending = {} /\ dDecided = {} /\ dAccess = {} /\ dRun = 0 /\ dFirst = <<>>
    /\ dPc = "idle"

NormIdle ==
    /\ nKind = "DeeplabV3" /\ nFused = FALSE /\ nImg = <<>> /\ nTensor = <<>>
    /\ nLo = 0 /\ nHi = 0 /\ nPass = FALSE /\ nPc = "idle"

RangeIdle ==
    /\ rMat = <<>> /\ rLo = 0 /\ rHi = 0 /\ rPass = FALSE /\ rPc = "idle"

Init ==
    /\ withGL \in BOOLEAN
    /\ ndebug \in BOOLEAN
    /\ pc = "ctor_type"
    /\ abortedIn = "none"
    /\ model_type_ = "Undefined"
    /\ width_ = 0 /\ height_ = 0 /\ stride_ = 0
    /\ input_ = NullTensor /\ output_ = NullTensor
    /\ acquired = <<>> /\ released = <<>>
    /\ call = NoCall
    /\ DecodeIdle
    /\ NormIdle
    /\ RangeIdle

Next ==
    \/ (\E model_type \in ModelTypeNames : CtorType(model_type)) /\ UNCHANGED <<decVars, normVars, rangeVars>>
    \/ (\E created \in BOOLEAN : CtorModel(created)) /\ UNCHANGED <<decVars, normVars, rangeVars>>
    \/ (\E created \in BOOLEAN : CtorOptions(created)) /\ UNCHANGED <<decVars, normVars, rangeVars>>
    \/ (\E created \in BOOLEAN : CtorDelegate(created)) /\ UNCHANGED <<decVars, normVars, rangeVars>>
    \/ (\E created \in BOOLEAN : CtorInterpreter(created)) /\ UNCHANGED <<decVars, normVars, rangeVars>>
    \/ (\E t \in InputTensors : CtorInput(t)) /\ UNCHANGED <<decVars, normVars, rangeVars>>
    \/ (\E t \in OutputTensors : CtorOutput(t)) /\ UNCHANGED <<decVars, normVars, rangeVars>>
    \/ CtorKind /\ UNCHANGED <<decVars, normVars, rangeVars>>
    \/ (\E frame \in Frames, maskImage \in MaskImages, rangeOK \in BOOLEAN :
           maskBackground(frame, maskImage, rangeOK)) /\ UNCHANGED <<decVars, normVars, rangeVars>>
    \/ Destructor /\ UNCHANGED <<decVars, normVars, rangeVars>>

Spec == Init /\ [][Next]_vars

(***************************************************************************)
(* Claims checked under Spec                                               *)
(***************************************************************************)
\* The constructor has returned: the object exists, a frame may have been
\* processed or have failed, or the object has been destroyed
Constructed == pc \in {"ready", "destroyed"} \/ abortedIn = "frame"

\* Both tensors have been read and have the rank the constructor indexes
Discovered ==
    /\ input_ # NullTensor /\ Len(input_.dims) = 4
    /\ output_ # NullTensor /\ Len(output_.dims) = 4

\* The contract table: legal strides and output channel count per model kind
TableStrides(kind) ==
    IF kind = "DeeplabV3" THEN {1}
    ELSE IF kind = "BodypixResnet" THEN {16, 32}
    ELSE IF kind = "BodypixMobilenet" THEN {8, 16}
    ELSE {}

TableChannels(kind) == IF kind = "DeeplabV3" THEN 21 ELSE 1

\* The discovered tensors fit no row of the table for this kind
DisagreesWithTable ==
    \/ output_.dims[4] # TableChannels(model_type_)
    \/ ~\E s \in TableStrides(model_type_) :
           /\ input_.dims[2] = s * output_.dims[2]
           /\ input_.dims[3] = s * output_.dims[3]

\* C1: construction fails, with no frame processed, whenever the discovered
\* output channel count or stride disagrees with the kind's row of the table
\* (DeepLabV3: stride 1, 21 channels; BodyPixResNet: stride 16 or 32, 1 channel;
\* BodyPixMobileNet: stride 8 or 16, 1 channel), and every adapter whose
\* constructor returned satisfies its kind's row.
C1_KindContract ==
    /\ Constructed =>
          /\ stride_ \in TableStrides(model_type_)
          /\ output_.dims[4] = TableChannels(model_type_)
    /\ (Discovered /\ DisagreesWithTable) => ~Constructed
    /\ ~Constructed => call = NoCall

\* C1 witness: a BodyPixResNet model with a well-formed stride of 8 has been
\* rejected by the kind check, after every resource was acquired
C1_Witness ==
    /\ pc = "aborted" /\ abortedIn = "ctor"
    /\ model_type_ = "BodypixResnet"
    /\ Discovered
    /\ stride_ = 8
    /\ output_.dims[4] = 1
    /\ acquired[Len(acquired)] = "interpreter"

\* The discovered tensors admit no positive integer stride common to both axes
GeometryViolated ==
    \/ output_.dims[2] = 0
    \/ output_.dims[3] = 0
    \/ /\ output_.dims[2] # 0 /\ output_.dims[3] # 0
       /\ \/ input_.dims[2] % output_.dims[2] # 0
          \/ input_.dims[3] % output_.dims[3] # 0
          \/ input_.dims[2] \div output_.dims[2] # input_.dims[3] \div output_.dims[3]
          \/ input_.dims[2] \div output_.dims[2] <= 0

\* C2: for an adapter whose constructor returned, stride_ is a positive divisor
\* of width_ and height_, it is the ratio of input to output size on both axes,
\* and the mask size getMaskFromOutput derives (width_/stride_, height_/stride_)
\* times stride_ is the input size; discovered geometry with no such stride
\* makes construction fail.
C2_Geometry ==
    /\ Constructed =>
          /\ stride_ > 0
          /\ width_ % stride_ = 0
          /\ height_ % stride_ = 0
          /\ width_ = stride_ * output_.dims[2]
          /\ height_ = stride_ * output_.dims[3]
          /\ (width_ \div stride_) * stride_ = width_
          /\ (height_ \div stride_) * stride_ = height_
          /\ width_ = input_.dims[2] /\ height_ = input_.dims[3]
    /\ (Discovered /\ GeometryViolated) => ~Constructed

\* C2 witness: a constructed adapter with a 32x16 input, stride 16 and so a 2x1 mask
C2_Witness ==
    /\ pc = "ready"
    /\ width_ = 32 /\ height_ = 16 /\ stride_ = 16
    /\ output_.dims[2] = 2 /\ output_.dims[3] = 1

\* C3: a call whose frame and replacement image differ in size is reported by
\* the fatal check and leaves the frame as it was: no pixel is written and no
\* resize, normalisation, inference, decode, upscale or compositing step runs.
C3_SizeMismatch ==
    (call.status # "none" /\ ~(call.frame0.cols = call.maskImage.cols
                               /\ call.frame0.rows = call.maskImage.rows)) =>
        /\ call.status = "aborted"
        /\ pc = "aborted" /\ abortedIn = "frame"
        /\ call.steps = {}
        /\ call.frame = call.frame0

\* C3 witness: a 2x2 frame was passed with a 1x2 replacement image
C3_Witness ==
    /\ call.status = "aborted"
    /\ call.frame0.cols = 2 /\ call.frame0.rows = 2
    /\ call.maskImage.cols = 1 /\ call.maskImage.rows = 2

\* C4: after a completed call, at every coordinate of the frame the pixel is
\* the replacement image's pixel where the upscaled mask is 1 and the original
\* frame's pixel where it is 0; an all-1 mask gives the replacement image and
\* an all-0 mask the original frame.
C4_Composite ==
    call.status = "done" =>
        /\ call.frame.cols = call.frame0.cols /\ call.frame.rows = call.frame0.rows
        /\ DOMAIN call.frame.at = Coords(call.frame0.cols, call.frame0.rows)
        /\ \A c \in Coords(call.frame0.cols, call.frame0.rows) :
              /\ call.mask[c] = 1 => call.frame.at[c] = call.maskImage.at[c]
              /\ call.mask[c] = 0 => call.frame.at[c] = call.frame0.at[c]
        /\ (\A c \in DOMAIN call.mask : call.mask[c] = 1) => call.frame = call.maskImage
        /\ (\A c \in DOMAIN call.mask : call.mask[c] = 0) => call.frame = call.frame0

\* C4 witness: a 2x2 frame composited under a mask that is 1 at (1, 0) and 0 at (0, 1)
C4_Witness ==
    /\ call.status = "done"
    /\ call.frame0.cols = 2 /\ call.frame0.rows = 2
    /\ call.mask[<<1, 0>>] = 1 /\ call.mask[<<0, 1>>] = 0
    /\ call.frame.at[<<1, 0>>] = call.maskImage.at[<<1, 0>>]

\* C8 as stated: on every exit path (a failed check in the constructor or in
\* a frame, and the destructor) every resource acquired so far has been
\* released exactly once, in reverse acquisition order.
C8_ReleasedOnEveryExit ==
    pc \in {"aborted", "destroyed"} => released = Reverse(acquired)

\* C8 amended: the destructor releases every acquired resource exactly once in
\* reverse acquisition order (interpreter, delegate when built WITH_GL, options,
\* model); a failed check aborts the process with nothing released, and nothing
\* is released before the destructor runs.
C8_ReleasedByDestructorOnly ==
    /\ pc = "destroyed" =>
          /\ released = Reverse(acquired)
          /\ Cardinality({released[i] : i \in 1..Len(released)}) = Len(released)
          /\ released = IF withGL THEN <<"interpreter", "delegate", "options", "model">>
                                  ELSE <<"interpreter", "options", "model">>
    /\ pc # "destroyed" => released = <<>>

\* C8 witness: an adapter built WITH_GL has been destroyed after processing a frame
C8_Witness ==
    /\ pc = "destroyed" /\ withGL
    /\ call.status = "done"
    /\ Len(released) = 4

(***************************************************************************)
(* SpecDecode: getMaskFromOutput with its for_each(par_unseq) tasks        *)
(* interleaved: each task reads its cell, then writes its slot             *)
(***************************************************************************)
\* Most cells of an output tensor in a decode run
MaxCells == 3

MaskSizes == {d \in (1..MaxCells) \X (1..MaxCells) : d[1] * d[2] <= MaxCells}

\* Class scores of one DeeplabV3 cell: two classes scored, 0 elsewhere
TwoHot(a, sa, b, sb) ==
    [c \in 1..deeplabv3_label_count |-> IF c = a + 1 THEN sa ELSE IF c = b + 1 THEN sb ELSE 0]

\* Per-cell contents of the output tensor: for DeeplabV3, person the only
\* maximum, another class the maximum, all classes tied, person tied with a
\* lower and with a higher class, person beaten; for the BodyPix kinds,
\* probabilities (in 1/10000) at and on either side of the threshold
DecodeCellValues(kind) ==
    IF kind = "DeeplabV3"
       THEN {OneHot(person_label, 10), OneHot(0, 10), OneHot(0, 0),
             TwoHot(person_label - 1, 1, person_label, 1),
             TwoHot(person_label, 1, person_label + 1, 1),
             TwoHot(person_label, 1, deeplabv3_label_count - 1, 2)}
       ELSE {threshold - 1, threshold, threshold + 1}

LifeIdle ==
    /\ withGL = FALSE /\ pc = "idle" /\ abortedIn = "none"
    /\ model_type_ = "Undefined" /\ width_ = 0 /\ height_ = 0 /\ stride_ = 0
    /\ input_ = NullTensor /\ output_ = NullTensor
    /\ acquired = <<>> /\ released = <<>> /\ call = NoCall

InitDecode ==
    /\ dKind \in ModelTypes
    /\ \E d \in MaskSizes :
          /\ dMaskw = d[1]
          /\ dMaskh = d[2]
          /\ dData \in [1..(d[1] * d[2]) -> DecodeCellValues(dKind)]
          /\ dRet = Zeros(d[1], d[2])
          /\ dPending = 0..(d[1] * d[2] - 1)
    /\ dDecided = {}
    /\ dAccess = {}
    /\ dRun = 1
    /\ dFirst = <<>>
    /\ dPc = "tasks"
    /\ ndebug = FALSE
    /\ LifeIdle
    /\ NormIdle
    /\ RangeIdle

\* A task starts: it reads its cell and decides (lines 169-171, 180)
DecodeRead(pixel) ==
    /\ dPc = "tasks"
    /\ pixel \in dPending
    /\ dPending' = dPending \ {pixel}
    /\ dDecided' = dDecided \cup {<<pixel, TaskDecision(dKind, dData, pixel)>>}
    /\ dAccess' = dAccess \cup {<<pixel, "read", pixel>>}
    /\ UNCHANGED <<dKind, dMaskw, dMaskh, dData, dRet, dRun, dFirst, dPc>>

\* The task finishes: it writes its slot if it decided to (lines 172-173, 181-182)
DecodeWrite(t) ==
    /\ dPc = "tasks"
    /\ t \in dDecided
    /\ dDecided' = dDecided \ {t}
    /\ dRet' = TaskWrite(dRet, t[1], dMaskw, t[2])
    /\ dAccess' = dAccess \cup
          {<<t[1], "write", c>> : c \in {c \in DOMAIN dRet : dRet'[c] # dRet[c]}}
    /\ UNCHANGED <<dKind, dMaskw, dMaskh, dData, dPending, dRun, dFirst, dPc>>

\* for_each returns once every task has finished; line 187
DecodeReturn ==
    /\ dPc = "tasks"
    /\ dPending = {} /\ dDecided = {}
    /\ dPc' = "returned"
    /\ dFirst' = IF dRun = 1 THEN dRet ELSE dFirst
    /\ UNCHANGED <<dKind, dMaskw, dMaskh, dData, dRet, dPending, dDecided, dAccess, dRun>>

\* getMaskFromOutput is called again on the same output buffer; lines 156-159
DecodeAgain ==
    /\ dPc = "returned"
    /\ dRun = 1
    /\ dRun' = 2
    /\ dRet' = Zeros(dMaskw, dMaskh)
    /\ dPending' = 0..(dMaskw * dMaskh - 1)
    /\ dPc' = "tasks"
    /\ UNCHANGED <<dKind, dMaskw, dMaskh, dData, dDecided, dAccess, dFirst>>

NextDecode ==
    \/ (\E pixel \in dPending : DecodeRead(pixel)) /\ UNCHANGED <<lifeVars, normVars, rangeVars>>
    \/ (\E t \in dDecided : DecodeWrite(t)) /\ UNCHANGED <<lifeVars, normVars, rangeVars>>
    \/ DecodeReturn /\ UNCHANGED <<lifeVars, normVars, rangeVars>>
    \/ DecodeAgain /\ UNCHANGED <<lifeVars, normVars, rangeVars>>

SpecDecode == InitDecode /\ [][NextDecode]_vars

(***************************************************************************)
(* Claims checked under SpecDecode                                         *)
(***************************************************************************)
\* The arg-max class of a score vector: the lowest-indexed class whose score
\* no class exceeds
ArgMaxFirst(l) ==
    CHOOSE k \in 0..(Len(l) - 1) :
        /\ \A j \in 0..(Len(l) - 1) : l[j + 1] <= l[k + 1]
        /\ \A j \in 0..(k - 1) : l[j + 1] < l[k + 1]

\* C5: DeeplabV3 decode: the mask cell (x, y) of the cell at row-major index
\* i = y*maskw + x is 0 exactly when the arg-max class, first among tied maxima,
\* is class 15, and 1 otherwise: person as the only maximum gives 0, person tied
\* with a lower-indexed class gives 1.
C5_DeeplabDecode ==
    (dPc = "returned" /\ dKind = "DeeplabV3") =>
        /\ DOMAIN dRet = Coords(dMaskw, dMaskh)
        /\ \A x \in 0..(dMaskw - 1), y \in 0..(dMaskh - 1) :
              LET l == dData[y * dMaskw + x + 1]
              IN  /\ dRet[<<x, y>>] \in {0, 1}
                  /\ dRet[<<x, y>>] = 0 <=> ArgMaxFirst(l) = 15
                  /\ (\A j \in 1..Len(l) : j # 16 => l[j] < l[16]) => dRet[<<x, y>>] = 0
                  /\ (\E j \in 1..15 : l[j] = l[16] /\ \A k \in 1..Len(l) : l[k] <= l[16])
                        => dRet[<<x, y>>] = 1

\* C5 witness: a 1x3 mask decoded from a cell where person is the only
\* maximum, a cell where person ties with class 14, and a cell where person
\* ties with class 16
C5_Witness ==
    /\ dPc = "returned" /\ dKind = "DeeplabV3"
    /\ dMaskw = 1 /\ dMaskh = 3
    /\ dData[1] = OneHot(15, 10) /\ dRet[<<0, 0>>] = 0
    /\ dData[2] = TwoHot(14, 1, 15, 1) /\ dRet[<<0, 1>>] = 1
    /\ dData[3] = TwoHot(15, 1, 16, 1) /\ dRet[<<0, 2>>] = 0

\* C6: threshold decode for BodyPixResNet and BodyPixMobileNet: the mask cell
\* (x, y) of the cell at row-major index i = y*maskw + x is 1 exactly when the
\* probability is strictly below 0.5; 0.5 gives 0, 0.4999 gives 1, 0.5001 gives 0.
C6_ThresholdDecode ==
    (dPc = "returned" /\ dKind \in {"BodypixResnet", "BodypixMobilenet"}) =>
        /\ DOMAIN dRet = Coords(dMaskw, dMaskh)
        /\ \A x \in 0..(dMaskw - 1), y \in 0..(dMaskh - 1) :
              LET p == dData[y * dMaskw + x + 1]
              IN  /\ dRet[<<x, y>>] = (IF p < 5000 THEN 1 ELSE 0)
                  /\ p = 5000 => dRet[<<x, y>>] = 0
                  /\ p = 4999 => dRet[<<x, y>>] = 1
                  /\ p = 5001 => dRet[<<x, y>>] = 0

\* C6 witness: a 3x1 BodyPixMobileNet mask decoded from 0.5, 0.4999 and 0.5001
C6_Witness ==
    /\ dPc = "returned" /\ dKind = "BodypixMobilenet"
    /\ dMaskw = 3 /\ dMaskh = 1
    /\ dData = <<5000, 4999, 5001>>
    /\ dRet[<<0, 0>>] = 0 /\ dRet[<<1, 0>>] = 1 /\ dRet[<<2, 0>>] = 0

\* C7: whatever the interleaving of the per-cell tasks, the returned mask is
\* the one the tasks give when run in index order, and a second run over the
\* same buffer returns the same mask; each task reads only its own cell and
\* writes only its own slot, so no two tasks write the same slot.
C7_DecodeDeterministic ==
    /\ dPc = "returned" => dRet = getMaskFromOutput(dKind, dMaskw, dMaskh, dData)
    /\ (dPc = "returned" /\ dRun = 2) => dRet = dFirst
    /\ \A a \in dAccess :
          /\ a[2] = "read" => a[3] = a[1]
          /\ a[2] = "write" => a[3] = <<a[1] % dMaskw, a[1] \div dMaskw>>
    /\ \A a, b \in dAccess :
          (a[2] = "write" /\ b[2] = "write" /\ a[3] = b[3]) => a[1] = b[1]

\* C7 witness: the second run over a 3-cell buffer has returned, with two
\* background cells written by two different tasks
C7_Witness ==
    /\ dPc = "returned" /\ dRun = 2
    /\ dMaskw * dMaskh = 3
    /\ Cardinality({a \in dAccess : a[2] = "write"}) >= 2
    /\ \E c \in DOMAIN dRet : dRet[c] = 0

(***************************************************************************)
(* 32-bit floats.  A float is kept as an integer mantissa in a fixed unit  *)
(* (2^-31 for the 1/255 scaling, 2^-17 for the mean subtraction); all      *)
(* values here are normal numbers, so rounding an exact result to a float  *)
(* is rounding its mantissa to 24 significant bits, ties to even.          *)
(***************************************************************************)
Abs(n) == IF n < 0 THEN -n ELSE n

RECURSIVE Pow2(_)
Pow2(n) == IF n <= 0 THEN 1 ELSE 2 * Pow2(n - 1)

RECURSIVE FloorLog2(_)
FloorLog2(n) == IF n <= 1 THEN 0 ELSE 1 + FloorLog2(n \div 2)

\* quotient q with remainder r of a division by d, rounded to nearest, ties to even
RoundNearestEven(q, r, d) ==
    IF 2 * r > d \/ (2 * r = d /\ q % 2 = 1) THEN q + 1 ELSE q

\* The float nearest to the exact value n (a mantissa in the unit at hand)
RoundF(n) ==
    LET a == Abs(n)
        d == Pow2(FloorLog2(a) - 23)
        m == RoundNearestEven(a \div d, a % d, d) * d
    IN  IF n < 0 THEN -m ELSE m

\* (float)(1. / 255) = 8421505 * 2^-31, the alpha of line 133 as convertTo uses it
AlphaMantissa == 8421505
\* -.5 = -BetaMantissa * 2^-31, the beta of line 133
BetaMantissa == 1073741824
\* (float)123.15, (float)115.90, (float)103.06 in units of 2^-17, line 141
Mean0Mantissa == 16141517
Mean1Mantissa == 15191245
Mean2Mantissa == 13508280
\* 1.0 in units of 2^-17
OneResnet == 131072

\* The exact product v * alpha, as quotient and remainder by the power of two d
\* (the product itself needs 32 bits for v = 255)
AlphaTimesDiv(v, d) == v * (AlphaMantissa \div d) + (v * (AlphaMantissa % d)) \div d
AlphaTimesMod(v, d) == (v * (AlphaMantissa % d)) % d

\* saturate_cast<float>(v * alpha + beta) for an 8-bit v, as cv::Mat::convertTo
\* computes it in floats, line 133.  A build whose convertTo contracts the
\* multiply-add into one fma rounds once; otherwise the product is rounded to
\* a float, then the sum.  Result in units of 2^-31.
ConvertScale(v, fused) ==
    IF fused
       THEN RoundF(256 * (AlphaTimesDiv(v, 256) - BetaMantissa \div 256) + AlphaTimesMod(v, 256))
    ELSE IF v = 0 THEN RoundF(-BetaMantissa)
    ELSE LET d == Pow2(8 + FloorLog2(AlphaTimesDiv(v, 256)) - 23)
             m == RoundNearestEven(AlphaTimesDiv(v, d), AlphaTimesMod(v, d), d)
         IN  RoundF((m - BetaMantissa \div d) * d)

\* v += cv::Vec3f(-123.15, -115.90, -103.06) on the converted pixel, line 141:
\* one float addition per channel.  Result in units of 2^-17.
SubtractMean(px) ==
    <<RoundF(px[1] * OneResnet - Mean0Mantissa),
      RoundF(px[2] * OneResnet - Mean1Mantissa),
      RoundF(px[3] * OneResnet - Mean2Mantissa)>>

\* makeInputTensor's conversion, lines 130-147 (without the range check)
makeInputTensor(kind, img, fused) ==
    IF kind = "BodypixResnet"
       THEN [i \in 1..Len(img) |-> SubtractMean(img[i])]
       ELSE [i \in 1..Len(img) |->
                <<ConvertScale(img[i][1], fused), ConvertScale(img[i][2], fused),
                  ConvertScale(img[i][3], fused)>>]

\* The range makeInputTensor checks the tensor against, lines 134 and 142, in
\* the tensor's unit: [-.5, .5], or [-127, 255]
CheckedLo(kind) == IF kind = "BodypixResnet" THEN -127 * OneResnet ELSE -BetaMantissa
CheckedHi(kind) == IF kind = "BodypixResnet" THEN 255 * OneResnet ELSE BetaMantissa

(***************************************************************************)
(* checkValuesInRange                                                      *)
(***************************************************************************)
\* lines 114, 116
minVec3f(v) == Min({v[1], v[2], v[3]})
maxVec3f(v) == Max({v[1], v[2], v[3]})

\* The comparison handed to std::minmax_element, line 122
RangeLess(a, b) == minVec3f(a) < minVec3f(b)

\* std::minmax_element(first, last, comp): the first smallest and the last
\* largest element under comp, as 1-based indices <<min, max>>
RECURSIVE MinMaxFrom(_, _, _, _)
MinMaxFrom(mat, i, mn, mx) ==
    IF i > Len(mat) THEN <<mn, mx>>
    ELSE IF RangeLess(mat[i], mat[mn]) THEN MinMaxFrom(mat, i + 1, i, mx)
    ELSE IF ~RangeLess(mat[i], mat[mx]) THEN MinMaxFrom(mat, i + 1, mn, i)
    ELSE MinMaxFrom(mat, i + 1, mn, mx)

minmax_element(mat) == MinMaxFrom(mat, 2, 1, 1)

\* checkValuesInRange in a build without NDEBUG, lines 118-126: whether both
\* CHECKs pass
checkValuesInRange(mat, min, max) ==
    LET mm == minmax_element(mat)
    IN  /\ minVec3f(mat[mm[1]]) >= min
        /\ maxVec3f(mat[mm[2]]) <= max

(***************************************************************************)
(* SpecNorm: makeInputTensor on bounded 8-bit images                       *)
(***************************************************************************)
\* Most pixels of an image or matrix
MaxPixels == 2

\* Channel values of the images that are not uniform gray
ChannelSamples == {0, 128, 255}
Pixels == ChannelSamples \X ChannelSamples \X ChannelSamples

NormImages ==
    {[i \in 1..n |-> <<v, v, v>>] : v \in 0..255, n \in 1..MaxPixels}
    \cup UNION {[1..n -> Pixels] : n \in 1..MaxPixels}

InitNorm ==
    /\ nKind \in ModelTypes
    /\ nFused \in BOOLEAN
    /\ ndebug \in BOOLEAN
    /\ nImg \in NormImages
    /\ nTensor = <<>>
    /\ nLo = 0 /\ nHi = 0 /\ nPass = FALSE
    /\ nPc = "start"
    /\ LifeIdle
    /\ DecodeIdle
    /\ RangeIdle

\* makeInputTensor, lines 128-150
MakeInputTensor ==
    /\ nPc = "start"
    /\ LET ret == makeInputTensor(nKind, nImg, nFused)
           ok == ndebug \/ checkValuesInRange(ret, CheckedLo(nKind), CheckedHi(nKind))
       IN  /\ nTensor' = ret
           /\ nLo' = CheckedLo(nKind)
           /\ nHi' = CheckedHi(nKind)
           /\ nPass' = ok
           /\ nPc' = IF ok THEN "returned" ELSE "aborted"
    /\ UNCHANGED <<nKind, nFused, nImg>>

NextNorm == MakeInputTensor /\ UNCHANGED <<lifeVars, decVars, rangeVars>>

SpecNorm == InitNorm /\ [][NextNorm]_vars

(***************************************************************************)
(* SpecRange: checkValuesInRange on bounded matrices and ranges            *)
(***************************************************************************)
\* Largest channel value and range bound of the matrices checked on their own
MaxValue == 2

RangeMats == UNION {[1..n -> (0..MaxValue) \X (0..MaxValue) \X (0..MaxValue)] : n \in 1..MaxPixels}

InitRange ==
    /\ rMat \in RangeMats
    /\ rLo \in 0..MaxValue
    /\ rHi \in rLo..MaxValue
    /\ rPass = FALSE
    /\ rPc = "start"
    /\ ndebug = FALSE
    /\ LifeIdle
    /\ DecodeIdle
    /\ NormIdle

\* checkValuesInRange(mat, min, max), lines 118-126
CheckValuesInRange ==
    /\ rPc = "start"
    /\ rPass' = checkValuesInRange(rMat, rLo, rHi)
    /\ rPc' = "checked"
    /\ UNCHANGED <<rMat, rLo, rHi>>

NextRange == CheckValuesInRange /\ UNCHANGED <<lifeVars, decVars, normVars>>

SpecRange == InitRange /\ [][NextRange]_vars

(***************************************************************************)
(* Claims checked under SpecNorm and SpecRange                             *)
(***************************************************************************)
AllChannels(mat) == {mat[i][c] : i \in 1..Len(mat), c \in 1..3}

\* C9: for each model kind and every 8-bit channel value, every element of the
\* normalised tensor lies in the kind's documented range: [-0.5, 0.5] for
\* DeepLabV3 and BodyPixMobileNet, [-127, 255] for BodyPixResNet.
C9_NormalizedInRange ==
    nPc \in {"returned", "aborted"} =>
        \A x \in AllChannels(nTensor) :
            IF nKind = "BodypixResnet"
               THEN -127 * 131072 <= x /\ x <= 255 * 131072
               ELSE -1073741824 <= x /\ x <= 1073741824

\* C9, failing input: a white pixel in a debug build whose convertTo fuses the
\* multiply-add yields 0.5 + 2^-24, and the range check aborts the call
C9_Witness ==
    /\ nPc = "aborted"
    /\ nKind = "DeeplabV3"
    /\ nFused
    /\ nImg = <<<<255, 255, 255>>>>
    /\ nTensor = <<<<1073741952, 1073741952, 1073741952>>>>

\* C9 restricted to builds that round the product before adding: there every
\* element lies in the documented range
C9_NormalizedInRangeUnfused ==
    (nPc \in {"returned", "aborted"} /\ ~nFused) =>
        \A x \in AllChannels(nTensor) :
            IF nKind = "BodypixResnet"
               THEN -127 * 131072 <= x /\ x <= 255 * 131072
               ELSE -1073741824 <= x /\ x <= 1073741824

\* C10: in a debug build checkValuesInRange passes exactly when every channel
\* of every pixel lies within [min, max]: it fails whenever any channel is below
\* min or above max.
C10_RangeCheckComplete ==
    rPc = "checked" => (rPass <=> \A x \in AllChannels(rMat) : rLo <= x /\ x <= rHi)

\* C10, failing input: the pixel (0, 0, 2) exceeds max = 1, but the largest
\* element under the comparison is (1, 1, 1), and the check passes
C10_Witness ==
    /\ rPc = "checked"
    /\ rMat = <<<<0, 0, 2>>, <<1, 1, 1>>>>
    /\ rLo = 0 /\ rHi = 1
    /\ rPass

\* C10, what the check does decide: the least channel against min, and against
\* max only the channels of the last pixel whose least channel is greatest
C10_RangeCheckActual ==
    rPc = "checked" =>
        (rPass <=> /\ \A x \in AllChannels(rMat) : rLo <= x
                   /\ \E i \in 1..Len(rMat) :
                         /\ \A j \in 1..Len(rMat) : minVec3f(rMat[j]) <= minVec3f(rMat[i])
                         /\ \A j \in (i + 1)..Len(rMat) : minVec3f(rMat[j]) < minVec3f(rMat[i])
                         /\ \A c \in 1..3 : rMat[i][c] <= rHi)

====
